---- MODULE Spec2Model ----
(***************************************************************************)
(* Model of the thesis-writing pipeline of DannyPreye/Docs-writer:         *)
(* the crewai Flow of crews/main.py (research -> outliner -> writer), the  *)
(* celery task that runs it, project creation and the project update API,  *)
(* and the tools the stage agents are given to persist their work.         *)
(***************************************************************************)
EXTENDS Integers, Sequences, FiniteSets, TLC

----------------------------------------------------------------------------
(* Bounds of the model *)

\* largest number of entries of an outline's "structure" list
MaxSections == 2
\* largest number of tool calls the agents make during one run
MaxToolCalls == 2
\* largest total_sources_found a research output declares
MaxTotal == 12
\* number of celery worker processes that consume the queue
NumWorkers == 2
\* the attempts the research task makes before it gives up
MaxAttempts == 2
\* largest number of times the broker delivers the job's message
MaxDeliveries == 3
\* largest number of Section rows the API requests create
MaxRows == 2

----------------------------------------------------------------------------
(* Python / JSON values.  Every value is a tagged record, so that values   *)
(* of different Python types are comparable.                               *)

VNone == [t |-> "none"]
VNum(n) == [t |-> "num", n |-> n]
VStr(s) == [t |-> "str", s |-> s]
VList(elems) == [t |-> "list", elems |-> elems]
\* a dict is its sequence of <<key, value>> items, in insertion order
VDict(items) == [t |-> "dict", items |-> items]
\* a Python str holding raw text: the sequence of its lexical tokens
VText(toks) == [t |-> "text", toks |-> toks]

\* Lexical tokens of a JSON text
TPunct(c) == [k |-> "punct", c |-> c]
TStr(s) == [k |-> "string", s |-> s]
TNum(n) == [k |-> "number", n |-> n]
TNull == [k |-> "null"]
TSpace == [k |-> "space"]

\* the characters of the strings the model uses (iteration over a str)
Chars(s) ==
  CASE s = "" -> << >>
    [] s = "A" -> <<"A">>
    [] s = "B" -> <<"B">>
    [] s = "AB" -> <<"A", "B">>
    [] s = "title" -> <<"t", "i", "t", "l", "e">>
    [] s = "order" -> <<"o", "r", "d", "e", "r">>
    [] s = "other" -> <<"o", "t", "h", "e", "r">>
    [] s = "structure" -> <<"s", "t", "r", "u", "c", "t", "u", "r", "e">>
    [] OTHER -> <<s>>

RECURSIVE DumpsSeq(_, _)
RECURSIVE DumpsItems(_, _)
RECURSIVE Dumps(_)
\* json.dumps: the tokens of the serialisation of v
Dumps(v) ==
  CASE v.t = "none" -> <<TNull>>
    [] v.t = "num" -> <<TNum(v.n)>>
    [] v.t = "str" -> <<TStr(v.s)>>
    [] v.t = "list" -> <<TPunct("[")>> \o DumpsSeq(v.elems, 1) \o <<TPunct("]")>>
    [] v.t = "dict" -> <<TPunct("{")>> \o DumpsItems(v.items, 1) \o <<TPunct("}")>>

DumpsSeq(elems, i) ==
  IF i > Len(elems) THEN << >>
  ELSE (IF i > 1 THEN <<TPunct(","), TSpace>> ELSE << >>)
         \o Dumps(elems[i]) \o DumpsSeq(elems, i + 1)

DumpsItems(items, i) ==
  IF i > Len(items) THEN << >>
  ELSE (IF i > 1 THEN <<TPunct(","), TSpace>> ELSE << >>)
         \o <<TStr(items[i][1]), TPunct(":"), TSpace>>
         \o Dumps(items[i][2]) \o DumpsItems(items, i + 1)

\* the tokens of a text without its whitespace
SkipSpace(toks) == SelectSeq(toks, LAMBDA tok : tok.k # "space")

\* dict item assignment d[key] = val: a repeated key keeps its position and
\* takes the later value
DictSet(items, key, val) ==
  IF \E j \in 1..Len(items) : items[j][1] = key
  THEN [j \in 1..Len(items) |->
          IF items[j][1] = key THEN <<key, val>> ELSE items[j]]
  ELSE Append(items, <<key, val>>)

ParseFail == [ok |-> FALSE]
ParseOk(val, next) == [ok |-> TRUE, val |-> val, next |-> next]
IsTok(toks, i, tok) == i <= Len(toks) /\ toks[i] = tok

RECURSIVE ParseValue(_, _)
RECURSIVE ParseElems(_, _, _)
RECURSIVE ParseMembers(_, _, _)
\* the JSON value that starts at token i
ParseValue(toks, i) ==
  IF i > Len(toks) THEN ParseFail
  ELSE LET tok == toks[i] IN
    CASE tok.k = "null" -> ParseOk(VNone, i + 1)
      [] tok.k = "number" -> ParseOk(VNum(tok.n), i + 1)
      [] tok.k = "string" -> ParseOk(VStr(tok.s), i + 1)
      [] tok.k = "punct" /\ tok.c = "[" ->
           IF IsTok(toks, i + 1, TPunct("]")) THEN ParseOk(VList(<< >>), i + 2)
           ELSE ParseElems(toks, i + 1, << >>)
      [] tok.k = "punct" /\ tok.c = "{" ->
           IF IsTok(toks, i + 1, TPunct("}")) THEN ParseOk(VDict(<< >>), i + 2)
           ELSE ParseMembers(toks, i + 1, << >>)
      [] OTHER -> ParseFail

\* the elements of a non-empty array, up to and including its "]"
ParseElems(toks, i, acc) ==
  LET r == ParseValue(toks, i) IN
    IF ~r.ok THEN ParseFail
    ELSE IF IsTok(toks, r.next, TPunct(","))
         THEN ParseElems(toks, r.next + 1, Append(acc, r.val))
    ELSE IF IsTok(toks, r.next, TPunct("]"))
         THEN ParseOk(VList(Append(acc, r.val)), r.next + 1)
    ELSE ParseFail

\* the members of a non-empty object, up to and including its "}"
ParseMembers(toks, i, acc) ==
  IF ~(i + 1 <= Len(toks) /\ toks[i].k = "string" /\ toks[i + 1] = TPunct(":"))
  THEN ParseFail
  ELSE LET r == ParseValue(toks, i + 2) IN
    IF ~r.ok THEN ParseFail
    ELSE IF IsTok(toks, r.next, TPunct(","))
         THEN ParseMembers(toks, r.next + 1, DictSet(acc, toks[i].s, r.val))
    ELSE IF IsTok(toks, r.next, TPunct("}"))
         THEN ParseOk(VDict(DictSet(acc, toks[i].s, r.val)), r.next + 1)
    ELSE ParseFail

\* json.loads(text): the value of the whole text, or JSONDecodeError
json_loads(text) ==
  LET toks == SkipSpace(text.toks)
      r == ParseValue(toks, 1)
  IN IF r.ok /\ r.next = Len(toks) + 1
     THEN [ok |-> TRUE, val |-> r.val]
     ELSE [ok |-> FALSE, val |-> VNone]

----------------------------------------------------------------------------
(* Outputs of the outline stage *)

Structure(title, order) ==
  VDict(<< <<"title", VStr(title)>>, <<"order", VNum(order)>> >>)

SectionWithSubsections(title, order) ==
  VDict(<< <<"section", Structure(title, order)>>,
           <<"subsections", VList(<< >>)>> >>)

\* an entry with one subsection
SectionWithOneSubsection(title, order) ==
  VDict(<< <<"section", Structure(title, order)>>,
           <<"subsections", VList(<<Structure(title, 1)>>)>> >>)

\* two entries whose `order` fields run against their titles, the second
\* with a subsection
SectionEntries ==
  {SectionWithSubsections("A", 2), SectionWithOneSubsection("B", 1)}

StructureLists == UNION {[1..n -> SectionEntries] : n \in 0..MaxSections}

OutlineResult(structure) == VDict(<< <<"structure", VList(structure)>> >>)

\* records of the OutlineResult shape
OutlineResults == {OutlineResult(l) : l \in StructureLists}

\* records that are not of the OutlineResult shape
OtherRecords ==
  { VDict(<< >>),
    VDict(<< <<"other", VNum(1)>> >>),
    VDict(<< <<"structure", VNone>> >>),
    VDict(<< <<"structure", VNum(1)>> >>),
    VDict(<< <<"structure", VStr("")>> >>),
    VDict(<< <<"structure", VStr("AB")>> >>),
    VDict(<< <<"structure", Structure("A", 1)>> >>),
    VDict(<< <<"other", VNum(1)>>,
             <<"structure", VList(<<SectionWithSubsections("A", 2)>>)>> >>) }

\* JSON values that are not records
NonRecords ==
  { VNone, VNum(1), VStr("A"), VList(<< >>),
    VList(<<SectionWithSubsections("A", 2)>>) }

JsonValues == OutlineResults \cup OtherRecords \cup NonRecords

\* values whose serialisation is also cut short at every length
TruncatedValues ==
  { OutlineResult(<< >>),
    OutlineResult(<<SectionWithSubsections("B", 1)>>),
    VList(<< >>) }

Prefixes(toks) == {SubSeq(toks, 1, n) : n \in 0..(Len(toks) - 1)}

\* texts that are malformed in other ways than by truncation
BrokenTexts ==
  { << >>,
    <<TSpace>>,
    <<TPunct("["), TNum(1), TPunct(","), TPunct("]")>>,
    <<TPunct("{"), TPunct("}"), TPunct("}")>>,
    <<TPunct("{"), TNum(1), TPunct(":"), TNum(1), TPunct("}")>>,
    <<TStr("structure"), TPunct(":"), TPunct("["), TPunct("]")>> }

\* texts that spell a value in another way than json.dumps does
OddTexts ==
  { <<TSpace, TNull, TSpace>>,
    <<TPunct("{"), TStr("structure"), TPunct(":"), TNum(1), TPunct(","),
      TStr("structure"), TPunct(":"), TPunct("["), TPunct("]"), TPunct("}")>> }

OutlineTexts ==
  {VText(Dumps(v)) : v \in JsonValues}
    \cup {VText(p) : p \in UNION {Prefixes(Dumps(v)) : v \in TruncatedValues}}
    \cup {VText(p) : p \in BrokenTexts \cup OddTexts}

\* an outline that comes back as a dict, or not at all
OutlineObjects == OutlineResults \cup OtherRecords \cup {VNone}

\* what the outline crew's result may set self.state.outline to: a str, a
\* dict or nothing
OutlineOutputs == OutlineTexts \cup OutlineObjects

----------------------------------------------------------------------------
(* The project, the job and the flow *)

STATUS_CHOICES ==
  {"draft", "researching", "outlined", "writing", "completed", "failed"}

\* the methods of ThesisWritingFlow
Methods == {"get_project_info", "research", "outliner", "writer"}

\* @start(): the methods a kickoff runs first
StartMethods == {"get_project_info"}

\* a wiring in which outliner listens to the start method instead of research
listen_outliner_early ==
  [research |-> "get_project_info", outliner |-> "get_project_info",
   writer |-> "outliner"]

\* @listen(m): the method whose completion triggers each other method
listen ==
  [research |-> "get_project_info", outliner |-> "research",
   writer |-> "outliner"]

\* the inputs of the one project of the model
Topic == VStr("X")
CitationStyle == VStr("APA")
ProjectId == VNum(1)

\* d.get(key, default)
dict_get(d, key, default) ==
  IF \E j \in 1..Len(d.items) : d.items[j][1] = key
  THEN d.items[CHOOSE j \in 1..Len(d.items) : d.items[j][1] = key][2]
  ELSE default

\* the least total_sources_found the gate lets through
MinSources == 10

\* a research output: the number of entries of `sources` and the declared
\* total_sources_found (the text fields play no part in any check)
ResearchOutput(nsources, total_sources_found) ==
  VDict(<< <<"sources", VList([i \in 1..nsources |-> VDict(<< >>)])>>,
           <<"total_sources_found", total_sources_found>> >>)

\* a gate that lets through only totals above the threshold
validate_total_research_output_above(result) ==
  IF result.t # "dict" THEN FALSE
  ELSE LET total_sources == dict_get(result, "total_sources_found", VNone) IN
    IF total_sources.t # "num" THEN FALSE
    ELSE ~(total_sources.n <= MinSources)

\* validate_total_research_output(result), on the value result.json()
\* yields: a lookup that fails and a comparison that raises end in the
\* except branch
validate_total_research_output(result) ==
  IF result.t # "dict" THEN FALSE
  ELSE LET total_sources == dict_get(result, "total_sources_found", VNone) IN
    IF total_sources.t # "num" THEN FALSE
    ELSE ~(total_sources.n < MinSources)

\* outputs of a research attempt: one source short of the threshold, at
\* the threshold, and one short of it but declared as one more
ResearchResults ==
  { ResearchOutput(MinSources - 1, VNum(MinSources - 1)),
    ResearchOutput(MinSources, VNum(MinSources)),
    ResearchOutput(MinSources - 1, VNum(MinSources + 1)) }

\* the outputs that declare as many sources as they list
CountedResults ==
  {r \in ResearchResults :
     dict_get(r, "total_sources_found", VNone).n
       = Len(dict_get(r, "sources", VNone).elems)}

\* result.raw of an attempt's output
RawOf(result) == VText(Dumps(result))

\* raw outputs of the research crew
ResearchOutputs == {RawOf(r) : r \in ResearchResults}

\* no attempt output awaits the guardrail
NoResult == VNone

\* what the gate is called on: records with every total up to MaxTotal,
\* a record without the field, records whose field is not a number, and
\* a value that is not a record
GateInputs ==
  {ResearchOutput(0, VNum(n)) : n \in 0..MaxTotal}
    \cup { VDict(<< <<"sources", VList(<< >>)>> >>),
           ResearchOutput(0, VNone), ResearchOutput(0, VStr("A")),
           VNone, VStr("A") }

\* notes an agent passes to the status tool
Notes == {"note"}

----------------------------------------------------------------------------
(* The fetch tools of the research agent.  A run of a tool is a function of *)
(* what the network and the libraries do during it; its outcome is the      *)
(* text it returns or the exception that leaves it.                         *)

Returns(text) == [raised |-> FALSE, val |-> text]
Raises(exc) == [raised |-> TRUE, val |-> exc]

\* the classes of each exception the tools meet, most derived first
Bases ==
  [Timeout |-> {"Timeout", "RequestException", "Exception"},
   ConnectionError |-> {"ConnectionError", "RequestException", "Exception"},
   HTTPError |-> {"HTTPError", "RequestException", "Exception"},
   ImportError |-> {"ImportError", "Exception"},
   ParseError |-> {"ParseError", "Exception"}]

\* an except clause that catches only the class it names
Catches_exact(cls, exc) == exc = cls

\* `except cls`: catches the instances of cls and of its subclasses
Catches(cls, exc) == cls \in Bases[exc]

\* one except clause: the class it names and the outcome of its body
Handler(cls, out) == [cls |-> cls, out |-> out]

\* try: body / except ...: the body's outcome, or that of the first clause
\* that catches what the body raised; an exception no clause catches
\* leaves the statement
Try(body, handlers) ==
  IF ~body.raised THEN body
  ELSE LET hits == {i \in 1..Len(handlers) :
                      Catches(handlers[i].cls, body.val)}
       IN IF hits = {} THEN body
          ELSE handlers[CHOOSE i \in hits : \A j \in hits : i <= j].out

Downloads == {"ok", "Timeout", "ConnectionError"}
Statuses == {"200", "403", "404", "500"}

\* response.raise_for_status() raises for a 4xx or 5xx status
RaiseForStatus(st) == st \in {"403", "404", "500"}

\* what happens during a run of Enhanced PDF Reader
PDFReaderScenarios ==
  [importOk : BOOLEAN, download : Downloads, status : Statuses,
   pdfType : BOOLEAN, pdfSuffix : BOOLEAN, parse : {"text", "empty", "error"}]

\* the texts of EnhancedPDFReaderTool._run that describe an error
PDFReaderErrors ==
  { "Error: pdfplumber is not installed",
    "Error: URL does not appear to point to a PDF file",
    "Error: Request timed out", "Error downloading PDF",
    "Error processing PDF" }

EnhancedPDFReaderTool_run(scn) ==
  IF ~scn.importOk THEN Returns("Error: pdfplumber is not installed")
  ELSE Try(
    IF scn.download # "ok" THEN Raises(scn.download)
    ELSE IF RaiseForStatus(scn.status) THEN Raises("HTTPError")
    ELSE IF ~scn.pdfType /\ ~scn.pdfSuffix
         THEN Returns("Error: URL does not appear to point to a PDF file")
    ELSE IF scn.parse = "error" THEN Raises("ParseError")
    ELSE IF scn.parse = "empty" THEN Returns("Warning: no text content")
    ELSE Returns("extracted text"),
    << Handler("Timeout", Returns("Error: Request timed out")),
       Handler("RequestException", Returns("Error downloading PDF")),
       Handler("Exception", Returns("Error processing PDF")) >>)

\* what happens during a run of PDF Metadata Reader
PDFMetadataScenarios ==
  [importOk : BOOLEAN, download : Downloads, status : Statuses,
   parse : {"metadata", "none", "error"}]

PDFMetadataReaderTool_run(scn) ==
  Try(
    IF ~scn.importOk THEN Raises("ImportError")
    ELSE IF scn.download # "ok" THEN Raises(scn.download)
    ELSE IF RaiseForStatus(scn.status) THEN Raises("HTTPError")
    ELSE IF scn.parse = "error" THEN Raises("ParseError")
    ELSE IF scn.parse = "none" THEN Returns("No metadata found in PDF")
    ELSE Returns("PDF Metadata"),
    << Handler("Exception", Returns("Error reading PDF metadata")) >>)

\* what happens during a run of BrightData Web Unlocker: the request to
\* the API, and the plain request of the fallback
WebUnlockerScenarios ==
  [primary : Downloads, status : Statuses, parse : {"ok", "error"},
   fallback : Downloads, fb_status : Statuses, fb_parse : {"ok", "error"}]

\* the texts of BrightDataWebUnlockerTool._run that describe an error
WebUnlockerErrors ==
  { "BrightData API Error", "Access denied (403 Forbidden)",
    "Page not found (404)", "HTTP error",
    "Error unlocking website (Fallback also failed)",
    "Error unlocking website" }

\* the fallback scrape in the handler of the first try
WebUnlockerFallback(scn) ==
  Try(
    IF scn.fallback # "ok" THEN Raises(scn.fallback)
    ELSE IF scn.fb_status = "403"
         THEN Returns("Access denied (403 Forbidden)")
    ELSE IF scn.fb_status = "404" THEN Returns("Page not found (404)")
    ELSE IF scn.fb_status # "200" THEN Returns("HTTP error")
    ELSE IF scn.fb_parse = "error" THEN Raises("ParseError")
    ELSE Returns("fallback content"),
    << Handler("Exception",
               Returns("Error unlocking website (Fallback also failed)")) >>)

BrightDataWebUnlockerTool_run(scn) ==
  Try(
    IF scn.primary # "ok" THEN Raises(scn.primary)
    ELSE IF scn.status # "200" THEN Returns("BrightData API Error")
    ELSE IF scn.parse = "error" THEN Raises("ParseError")
    ELSE Returns("content"),
    << Handler("Exception", WebUnlockerFallback(scn)),
       Handler("RequestException", Returns("Error unlocking website")) >>)

\* the fetch tools and the scenarios of each
FetchTools ==
  [EnhancedPDFReaderTool |-> PDFReaderScenarios,
   PDFMetadataReaderTool |-> PDFMetadataScenarios,
   BrightDataWebUnlockerTool |-> WebUnlockerScenarios]

VARIABLES
  created,        \* the Project row exists
  status,         \* Project.status
  note,           \* the note of the last status update, "" when none was given
  job,            \* the celery job: none, queued, running, succeeded, failed
  mstate,         \* per flow method: idle, running, done, raised
  state,          \* the flow's ProjectInfo state
  clean_outline,  \* the requests the writer hands to kickoff_for_each
  wnext,          \* index of the next request kickoff_for_each runs
  winflight,      \* a writer crew kickoff is running
  trace,          \* the crew invocations of the run: invoke/return/raise events
  saveCalls,      \* number of section-save calls, per <<request index, flag>>
  ntool,          \* number of tool calls the agents made
  attempt,        \* the output of the research attempt awaiting the guardrail
  nattempt,       \* attempts the research task has made in the running kickoff
  db,             \* the project's stored Research, Outline and Section rows
  call,           \* a call of a fetch tool or of the gate: function, input, result
  broker,         \* the job's message: copies ready, workers holding it, deliveries
  workers,        \* per celery worker: idle, or the stage its run of the job is in
  pool,           \* the worker processes and the jobs of several projects
  tables,         \* the Research and Outline rows, and the save calls made
  api             \* the projects and Section rows of every user, and the last request

vars ==
  <<created, status, note, job, mstate, state, clean_outline,
    wnext, winflight, trace, saveCalls, ntool, attempt, nattempt, db, call,
    broker, workers, pool, tables, api>>

projectVars == <<created, status, note>>
flowVars == <<mstate, state, clean_outline, wnext, winflight, trace>>
toolVars == <<saveCalls, ntool>>
researchVars == <<attempt, nattempt>>
queueVars == <<broker, workers>>
poolVars == <<pool, tables, api>>
sideVars == <<call, queueVars, poolVars>>
otherVars == <<researchVars, db, sideVars>>

\* ProjectInfo(): every field None
ProjectInfo ==
  [topic |-> VNone, citation_style |-> VNone, project_id |-> VNone,
   research_summary |-> VNone, outline |-> VNone]

\* no Research row, no Outline row, no Section rows
EmptyDb == [research |-> VNone, outline |-> FALSE, sections |-> << >>]

\* the worker processes
Workers == 1..NumWorkers

\* no tool call is in progress
NoCall == [fn |-> "none", arg |-> VNone, out |-> VNone]

Event(ev, stage, idx) == [ev |-> ev, stage |-> stage, idx |-> idx]

\* the state before the project is created
InitRun ==
  /\ created = FALSE
  /\ status = "draft"
  /\ note = ""
  /\ job = "none"
  /\ mstate = [m \in Methods |-> "idle"]
  /\ state = ProjectInfo
  /\ clean_outline = << >>
  /\ wnext = 1
  /\ winflight = FALSE
  /\ trace = << >>
  /\ saveCalls = << >>
  /\ ntool = 0
  /\ attempt = NoResult
  /\ nattempt = 0
  /\ db = EmptyDb

\* no message at the broker, every worker idle
\* no worker process runs and no project was created
NoPool == [procs |-> 0, created |-> {}, queue |-> << >>, running |-> << >>]

\* no request was made
NoRequest == [user |-> "none", owners |-> {}, code |-> "none"]

\* no user has a project, no Section row exists
NoData ==
  [projects |-> << >>, sections |-> << >>, next |-> 1, last |-> NoRequest]

\* the Research and Outline tables are empty
NoRows == [research |-> << >>, outline |-> << >>, saves |-> 0]

InitQueue ==
  /\ broker = [ready |-> 0, unacked |-> {}, deliveries |-> 0]
  /\ workers = [w \in Workers |-> "idle"]

Init == InitRun /\ call = NoCall /\ InitQueue /\ pool = NoPool /\ tables = NoRows
  /\ api = NoData

----------------------------------------------------------------------------
(* ThesisWritingFlow.writer: from the outline to the writer crew's inputs *)

\* what `for section in v` iterates over; a value that is not iterable
\* raises TypeError
Iterate(v) ==
  CASE v.t = "list" -> [ok |-> TRUE, elems |-> v.elems]
    [] v.t = "str" ->
         [ok |-> TRUE,
          elems |-> [i \in 1..Len(Chars(v.s)) |-> VStr(Chars(v.s)[i])]]
    [] v.t = "dict" ->
         [ok |-> TRUE,
          elems |-> [i \in 1..Len(v.items) |-> VStr(v.items[i][1])]]
    [] OTHER -> [ok |-> FALSE, elems |-> << >>]

\* an input that leaves the research summary out
WriteRequest_nosummary(st, section, outline) ==
  [topic |-> st.topic, citation_style |-> st.citation_style,
   section |-> section, research_summary |-> VNone,
   outline |-> outline, project_id |-> st.project_id]

\* one input of the writer crew
WriteRequest(st, section, outline) ==
  [topic |-> st.topic, citation_style |-> st.citation_style,
   section |-> section, research_summary |-> st.research_summary,
   outline |-> outline, project_id |-> st.project_id]

\* a fallback that passes the parsed outline, which does not exist
FallbackInputs_parsed(st) == <<WriteRequest(st, VNone, VNone)>>

\* the input built when the outline text does not parse
FallbackInputs(st) == <<WriteRequest(st, VNone, st.outline)>>

\* the sections of the outline data: its "structure" when it is a dict
SectionsOf(outline_data) ==
  IF outline_data.t = "dict"
  THEN dict_get(outline_data, "structure", VList(<< >>))
  ELSE VList(<< >>)

\* the `order` field of the `section` of an outline entry
OrderOf(entry) ==
  IF entry.t # "dict" THEN 0
  ELSE LET s == dict_get(entry, "section", VNone) IN
    IF s.t # "dict" THEN 0
    ELSE LET o == dict_get(s, "order", VNone) IN
      IF o.t = "num" THEN o.n ELSE 0

\* a loop over the sections sorted by their `order` field
SectionInputs_sorted(st, outline_data, elems) ==
  LET n == Len(elems)
      p == CHOOSE q \in [1..n -> 1..n] :
             /\ \A i, j \in 1..n : i # j => q[i] # q[j]
             /\ \A i, j \in 1..n : i < j =>
                  \/ OrderOf(elems[q[i]]) < OrderOf(elems[q[j]])
                  \/ (OrderOf(elems[q[i]]) = OrderOf(elems[q[j]])
                        /\ q[i] < q[j])
  IN [i \in 1..n |-> WriteRequest(st, elems[p[i]], outline_data)]

\* a loop over the sections from the last to the first
SectionInputs_reversed(st, outline_data, elems) ==
  [i \in 1..Len(elems) |->
     WriteRequest(st, elems[Len(elems) + 1 - i], outline_data)]

\* a loop that stops one section short
SectionInputs_short(st, outline_data, elems) ==
  [i \in 1..(Len(elems) - 1) |-> WriteRequest(st, elems[i], outline_data)]

\* the inputs built by the loop over the sections
SectionInputs(st, outline_data, elems) ==
  [i \in 1..Len(elems) |-> WriteRequest(st, elems[i], outline_data)]

\* the writer method up to its call of kickoff_for_each: the inputs it
\* passes, or raised when it raises before the call
writer_inputs(st) ==
  LET isText == st.outline.t = "text"
      parsed == IF isText THEN json_loads(st.outline)
                ELSE [ok |-> TRUE, val |-> st.outline]
  IN IF ~parsed.ok
     THEN [raised |-> FALSE, inputs |-> FallbackInputs(st)]
     ELSE LET it == Iterate(SectionsOf(parsed.val)) IN
       IF ~it.ok THEN [raised |-> TRUE, inputs |-> << >>]
       ELSE [raised |-> FALSE,
             inputs |-> SectionInputs(st, parsed.val, it.elems)]

----------------------------------------------------------------------------
(* Actions *)

\* a create that puts the job on the queue whether or not delay() raised
JobAfterCreate_always(enqueued) == "queued"

\* the job after create: delay() is called once, and when it raises the
\* except clause only prints
JobAfterCreate(enqueued) == IF enqueued THEN "queued" ELSE "none"

\* ProjectCreateSerializer.create: the row is stored with the default
\* status, then the job is enqueued; an enqueue error is swallowed
CreateProject(enqueued) ==
  /\ ~created
  /\ created' = TRUE
  /\ status' = "draft"
  /\ job' = JobAfterCreate(enqueued)
  /\ UNCHANGED <<otherVars, note, flowVars, toolVars>>

\* ProjectViewSet.update / partial_update through ProjectSerializer, whose
\* status field is writable
ApiUpdate(s) ==
  /\ created
  /\ status' = s
  /\ UNCHANGED <<otherVars, created, note, job, flowVars, toolVars>>

\* run_thesis_writing_flow up to flow.kickoff_async: the flow state takes
\* the inputs
TaskStart ==
  /\ job = "queued"
  /\ job' = "running"
  /\ state' = [ProjectInfo EXCEPT !.topic = Topic,
                                  !.citation_style = CitationStyle,
                                  !.project_id = ProjectId]
  /\ UNCHANGED <<otherVars, projectVars, mstate, clean_outline, wnext, winflight,
                 trace, toolVars>>

\* a method runs when the flow started (start methods) or when the method
\* it listens to has completed
Triggered(m) ==
  IF m \in StartMethods THEN TRUE ELSE mstate[listen[m]] = "done"

CanStart(m) == job = "running" /\ mstate[m] = "idle" /\ Triggered(m)

get_project_info ==
  /\ CanStart("get_project_info")
  /\ mstate' = [mstate EXCEPT !["get_project_info"] = "done"]
  /\ UNCHANGED <<otherVars, projectVars, job, state, clean_outline, wnext, winflight,
                 trace, toolVars>>

\* research / outliner up to the crew's kickoff
StageInvoke(m) ==
  /\ m \in {"research", "outliner"}
  /\ CanStart(m)
  /\ mstate' = [mstate EXCEPT ![m] = "running"]
  /\ trace' = Append(trace, Event("invoke", m, 0))
  /\ UNCHANGED <<otherVars, projectVars, job, state, clean_outline, wnext, winflight,
                 toolVars>>

\* a task that runs again however often its output was turned down
AttemptAllowed_always(n) == TRUE

\* the task runs (again) while its attempts are not used up
AttemptAllowed(n) == n < MaxAttempts

\* the research agent ends an attempt with an output
research_attempt(result) ==
  /\ mstate["research"] = "running"
  /\ attempt = NoResult
  /\ AttemptAllowed(nattempt)
  /\ attempt' = result
  /\ nattempt' = nattempt + 1
  /\ UNCHANGED <<db, sideVars, projectVars, job, flowVars, toolVars>>

\* the guardrail turns the attempt's output down: the task runs again
research_reject ==
  /\ mstate["research"] = "running"
  /\ attempt # NoResult
  /\ ~validate_total_research_output(attempt)
  /\ attempt' = NoResult
  /\ UNCHANGED nattempt
  /\ UNCHANGED <<db, sideVars, projectVars, job, flowVars, toolVars>>

\* the guardrail lets the attempt's output through: the crew returns it
\* and research stores its raw text in the flow state
research_return(raw) ==
  /\ mstate["research"] = "running"
  /\ attempt # NoResult
  /\ validate_total_research_output(attempt)
  /\ raw = RawOf(attempt)
  /\ attempt' = NoResult
  /\ nattempt' = 0
  /\ state' = [state EXCEPT !.research_summary = raw]
  /\ mstate' = [mstate EXCEPT !["research"] = "done"]
  /\ trace' = Append(trace, Event("return", "research", 0))
  /\ UNCHANGED <<db, sideVars, projectVars, job, clean_outline, wnext, winflight, toolVars>>

outliner_return(raw) ==
  /\ mstate["outliner"] = "running"
  /\ state' = [state EXCEPT !.outline = raw]
  /\ mstate' = [mstate EXCEPT !["outliner"] = "done"]
  /\ trace' = Append(trace, Event("return", "outliner", 0))
  /\ UNCHANGED <<otherVars, projectVars, job, clean_outline, wnext, winflight, toolVars>>

\* a method that catches the error of its kickoff and returns
OnKickoffRaise_caught(m) == "done"

\* how a method ends when the crew kickoff it calls raises: no method of
\* the flow catches anything
OnKickoffRaise(m) == "raised"

\* the job after a method ended in `end`: an exception leaves kickoff_async,
\* run_flow and the task
JobAfter(end) == IF end = "raised" THEN "failed" ELSE job

\* a store whose rows are removed when the run fails
db_after_raise_rollback(d) == EmptyDb

\* the stored rows after an exception left the run: no transaction wraps
\* the run and no handler cleans up
db_after_raise(d) == d

\* the kickoff of the research or outline crew raises
StageRaise(m) ==
  /\ m \in {"research", "outliner"}
  /\ mstate[m] = "running"
  /\ mstate' = [mstate EXCEPT ![m] = OnKickoffRaise(m)]
  /\ job' = JobAfter(OnKickoffRaise(m))
  /\ trace' = Append(trace, Event("raise", m, 0))
  /\ attempt' = NoResult
  /\ nattempt' = 0
  /\ db' = db_after_raise(db)
  /\ UNCHANGED <<sideVars, projectVars, state, clean_outline, wnext, winflight,
                 toolVars>>

\* writer up to kickoff_for_each
writer_start ==
  /\ CanStart("writer")
  /\ LET w == writer_inputs(state) IN
       /\ mstate' = [mstate EXCEPT
                       !["writer"] = IF w.raised THEN "raised" ELSE "running"]
       /\ job' = IF w.raised THEN "failed" ELSE job
       /\ db' = IF w.raised THEN db_after_raise(db) ELSE db
       /\ clean_outline' = w.inputs
       /\ saveCalls' = [c \in (1..Len(w.inputs)) \X BOOLEAN |-> 0]
  /\ wnext' = 1
  /\ UNCHANGED <<researchVars, sideVars, projectVars, state, winflight, trace, ntool>>

\* kickoff_for_each: the crew is kicked off for the next input
write_invoke ==
  /\ mstate["writer"] = "running"
  /\ ~winflight
  /\ wnext <= Len(clean_outline)
  /\ winflight' = TRUE
  /\ trace' = Append(trace, Event("invoke", "write", wnext))
  /\ UNCHANGED <<otherVars, projectVars, job, mstate, state, clean_outline, wnext,
                 toolVars>>

write_return ==
  /\ mstate["writer"] = "running"
  /\ winflight
  /\ winflight' = FALSE
  /\ wnext' = wnext + 1
  /\ trace' = Append(trace, Event("return", "write", wnext))
  /\ UNCHANGED <<otherVars, projectVars, job, mstate, state, clean_outline, toolVars>>

write_raise ==
  /\ mstate["writer"] = "running"
  /\ winflight
  /\ winflight' = FALSE
  /\ mstate' = [mstate EXCEPT !["writer"] = OnKickoffRaise("writer")]
  /\ job' = JobAfter(OnKickoffRaise("writer"))
  /\ trace' = Append(trace, Event("raise", "write", wnext))
  /\ db' = db_after_raise(db)
  /\ UNCHANGED <<researchVars, sideVars, projectVars, state, clean_outline, wnext, toolVars>>

\* kickoff_for_each returned: writer, the flow and the task return
writer_done ==
  /\ mstate["writer"] = "running"
  /\ ~winflight
  /\ wnext > Len(clean_outline)
  /\ mstate' = [mstate EXCEPT !["writer"] = "done"]
  /\ job' = "succeeded"
  /\ UNCHANGED <<otherVars, projectVars, state, clean_outline, wnext, winflight, trace,
                 toolVars>>

\* a crew kickoff is running: its agent may call its tools
CrewRunning ==
  mstate["research"] = "running" \/ mstate["outliner"] = "running" \/ winflight

\* update_status(project_id, status, note), a tool of all three agents
project_status_update_tool(s, n) ==
  /\ CrewRunning
  /\ ntool < MaxToolCalls
  /\ ntool' = ntool + 1
  /\ status' = s
  /\ note' = n
  /\ UNCHANGED <<otherVars, created, job, flowVars, saveCalls>>

\* save_research(project_id, research, sources), a tool of the research
\* agent, called with the output the agent assembled: the project's one
\* Research row takes the output's fields
project_research_save_tool ==
  /\ mstate["research"] = "running"
  /\ attempt # NoResult
  /\ ntool < MaxToolCalls
  /\ ntool' = ntool + 1
  /\ db' = [db EXCEPT !.research = attempt]
  /\ UNCHANGED <<researchVars, sideVars, projectVars, job, flowVars, saveCalls>>

\* save_outline(project_id, structure_data, sections), a tool of the
\* outline agent: the project's one Outline row is stored
project_outline_save_tool ==
  /\ mstate["outliner"] = "running"
  /\ ntool < MaxToolCalls
  /\ ntool' = ntool + 1
  /\ db' = [db EXCEPT !.outline = TRUE]
  /\ UNCHANGED <<researchVars, sideVars, projectVars, job, flowVars, saveCalls>>

\* the number of subsections of the section of a write request
SubsectionCount(section) ==
  IF section.t # "dict" THEN 0
  ELSE LET subs == dict_get(section, "subsections", VNone) IN
    IF subs.t = "list" THEN Len(subs.elems) ELSE 0

\* the Section rows of one written section: the section itself (sub 0)
\* and one row per subsection, each naming the request it was written for
SectionRows(req, section) ==
  [k \in 1..(SubsectionCount(section) + 1) |-> [req |-> req, sub |-> k - 1]]

\* the save creates its rows: rows of the same section that are already
\* stored stay
SectionInsert(rows, new) == rows \o new

\* save_section(project_id, sections, mark_completed), a tool of the
\* writing agent: the rows of the section are stored and the flag of the
\* call moves the project to completed
project_section_save_tool(mark_completed) ==
  /\ winflight
  /\ ntool < MaxToolCalls
  /\ ntool' = ntool + 1
  /\ saveCalls' = [saveCalls EXCEPT ![<<wnext, mark_completed>>] = @ + 1]
  /\ status' = IF mark_completed THEN "completed" ELSE status
  /\ db' = [db EXCEPT !.sections =
              SectionInsert(@, SectionRows(wnext, clean_outline[wnext].section))]
  /\ UNCHANGED <<researchVars, sideVars, created, note, job, flowVars>>

Next ==
  \/ \E enqueued \in BOOLEAN : CreateProject(enqueued)
  \/ TaskStart
  \/ get_project_info
  \/ \E m \in {"research", "outliner"} : StageInvoke(m)
  \/ \E result \in CountedResults : research_attempt(result)
  \/ research_reject
  \/ \E raw \in ResearchOutputs : research_return(raw)
  \/ \E raw \in OutlineTexts : outliner_return(raw)
  \/ \E raw \in OutlineObjects : outliner_return(raw)
  \/ \E m \in {"research", "outliner"} : StageRaise(m)
  \/ writer_start
  \/ write_invoke
  \/ write_return
  \/ write_raise
  \/ writer_done
  \/ \E b \in BOOLEAN : project_section_save_tool(b)
  \/ \E s \in STATUS_CHOICES, n \in Notes : project_status_update_tool(s, n)
  \/ \E s \in STATUS_CHOICES : ApiUpdate(s)

Spec == Init /\ [][Next]_vars

----------------------------------------------------------------------------
(* The run with every save tool of the agents, over the outlines the      *)
(* outline crew returns as objects                                         *)

NextStore ==
  \/ \E enqueued \in BOOLEAN : CreateProject(enqueued)
  \/ TaskStart
  \/ get_project_info
  \/ \E m \in {"research", "outliner"} : StageInvoke(m)
  \/ \E result \in ResearchResults : research_attempt(result)
  \/ research_reject
  \/ \E raw \in ResearchOutputs : research_return(raw)
  \/ \E raw \in OutlineObjects : outliner_return(raw)
  \/ \E m \in {"research", "outliner"} : StageRaise(m)
  \/ writer_start
  \/ write_invoke
  \/ write_return
  \/ write_raise
  \/ writer_done
  \/ project_research_save_tool
  \/ project_outline_save_tool
  \/ \E b \in BOOLEAN : project_section_save_tool(b)
  \/ \E s \in STATUS_CHOICES, n \in Notes : project_status_update_tool(s, n)
  \/ \E s \in STATUS_CHOICES : ApiUpdate(s)

SpecStore == Init /\ [][NextStore]_vars

----------------------------------------------------------------------------
(* Calls of the fetch tools and of the gate, each on every input *)

runVars ==
  <<created, status, note, job, mstate, state, clean_outline,
    wnext, winflight, trace, saveCalls, ntool, attempt, nattempt, db,
    queueVars, poolVars>>

\* Source.SOURCE_TYPE_CHOICES: the values of source_type
SOURCE_TYPE_CHOICES ==
  {"academic", "book", "article", "website", "report", "other"}

\* the fields ResearchOutput declares, each with the tag of its type
ResearchOutputFields ==
  << <<"sources", "list">>, <<"research_summary", "str">>,
     <<"research_gaps", "str">>, <<"recommendations", "str">>,
     <<"total_sources_found", "num">>, <<"pdf_sources_count", "num">>,
     <<"web_sources_count", "num">> >>

\* a research output with every declared field
FullOutput(sources, total_sources_found) ==
  VDict(<< <<"sources", sources>>, <<"research_summary", VStr("A")>>,
           <<"research_gaps", VStr("A")>>, <<"recommendations", VStr("A")>>,
           <<"total_sources_found", total_sources_found>>,
           <<"pdf_sources_count", VNum(0)>>,
           <<"web_sources_count", VNum(1)>> >>)

\* a research output without its research_summary
OutputWithoutSummary ==
  VDict(<< <<"sources", VList(<< >>)>>,
           <<"research_gaps", VStr("A")>>, <<"recommendations", VStr("A")>>,
           <<"total_sources_found", VNum(0)>>,
           <<"pdf_sources_count", VNum(0)>>,
           <<"web_sources_count", VNum(0)>> >>)

\* an entry of `sources`
SourceEntry(title, source_type) ==
  VDict(<< <<"title", VStr(title)>>, <<"source_type", VStr(source_type)>> >>)

\* outputs handed to the validation of the research task's output: a
\* well-formed one, one whose source has a source_type outside the
\* choices, one whose source has no title, one whose source is no dict,
\* one without a required field, one whose total is no number, one whose
\* sources are no list, and a value that is no dict
ValidationInputs ==
  { FullOutput(VList(<<SourceEntry("A", "book")>>), VNum(1)),
    FullOutput(VList(<<SourceEntry("A", "blog")>>), VNum(1)),
    FullOutput(VList(<<VDict(<< <<"source_type", VStr("book")>> >>)>>),
               VNum(1)),
    FullOutput(VList(<<VStr("A")>>), VNum(1)),
    OutputWithoutSummary,
    FullOutput(VList(<< >>), VStr("A")),
    FullOutput(VStr("A"), VNum(0)),
    VStr("A") }

\* ResearchOutput(**value): every declared field is present with its
\* type, and `sources: list[dict]` asks of each entry only that it is a
\* dict
ResearchOutput_validate(value) ==
  IF /\ value.t = "dict"
     /\ \A i \in 1..Len(ResearchOutputFields) :
          dict_get(value, ResearchOutputFields[i][1], VNone).t
            = ResearchOutputFields[i][2]
     /\ \A i \in 1..Len(dict_get(value, "sources", VNone).elems) :
          dict_get(value, "sources", VNone).elems[i].t = "dict"
  THEN Returns(value)
  ELSE Raises("ValidationError")

\* a call that has not returned
Pending(fn, arg) == [fn |-> fn, arg |-> arg, out |-> VNone]

InitTools ==
  /\ InitRun
  /\ InitQueue
  /\ pool = NoPool
  /\ tables = NoRows
  /\ api = NoData
  /\ call \in
       UNION {{Pending(fn, arg) : arg \in FetchTools[fn]} :
                fn \in DOMAIN FetchTools}
         \cup {Pending("validate_total_research_output", r) : r \in GateInputs}
         \cup {Pending("ResearchOutput", r) : r \in ValidationInputs}

\* the call runs to its end
Finish(fn, out) ==
  /\ call.fn = fn
  /\ call.out = VNone
  /\ call' = [call EXCEPT !.out = out]
  /\ UNCHANGED runVars

EnhancedPDFReaderTool_call ==
  Finish("EnhancedPDFReaderTool", EnhancedPDFReaderTool_run(call.arg))

PDFMetadataReaderTool_call ==
  Finish("PDFMetadataReaderTool", PDFMetadataReaderTool_run(call.arg))

BrightDataWebUnlockerTool_call ==
  Finish("BrightDataWebUnlockerTool", BrightDataWebUnlockerTool_run(call.arg))

validate_total_research_output_call ==
  Finish("validate_total_research_output",
         Returns(validate_total_research_output(call.arg)))

\* output_json=ResearchOutput: the task's output is turned into the model
ResearchOutput_call ==
  Finish("ResearchOutput", ResearchOutput_validate(call.arg))

NextTools ==
  \/ EnhancedPDFReaderTool_call
  \/ PDFMetadataReaderTool_call
  \/ BrightDataWebUnlockerTool_call
  \/ validate_total_research_output_call
  \/ ResearchOutput_call

SpecTools == InitTools /\ [][NextTools]_vars

----------------------------------------------------------------------------
(* The job between the API, the broker and the celery workers *)

jobVars ==
  <<status, note, job, mstate, state, clean_outline, wnext, winflight,
    trace, saveCalls, ntool, attempt, nattempt, db, call, poolVars>>

\* the stages a run of the task goes through
RunStages == <<"research", "outliner", "writer">>

\* ProjectCreateSerializer.create: the row is stored, then delay() puts
\* one message on the queue; an error of delay() is swallowed
create(enqueued) ==
  /\ ~created
  /\ created' = TRUE
  /\ broker' = [broker EXCEPT !.ready = IF enqueued THEN 1 ELSE 0]
  /\ UNCHANGED <<workers, jobVars>>

\* a worker that runs no task takes a ready message and starts
\* run_thesis_writing_flow: it runs one task at a time and reserves no
\* second message; the task looks at no lock and at no status
deliver(w) ==
  /\ broker.ready > 0
  /\ broker.deliveries < MaxDeliveries
  /\ workers[w] = "idle"
  /\ workers' = [workers EXCEPT ![w] = RunStages[1]]
  /\ broker' = [ready |-> broker.ready - 1,
                unacked |-> broker.unacked \cup {w},
                deliveries |-> broker.deliveries + 1]
  /\ UNCHANGED <<created, jobVars>>

\* the run of worker w goes on to its next stage
advance(w) ==
  /\ \E i \in 1..(Len(RunStages) - 1) :
       /\ workers[w] = RunStages[i]
       /\ workers' = [workers EXCEPT ![w] = RunStages[i + 1]]
  /\ UNCHANGED <<created, broker, jobVars>>

\* the task of worker w returns (after its last stage) or raises (in any
\* stage): with acks_late the message is acknowledged only now
finish(w) ==
  /\ workers[w] # "idle"
  /\ workers' = [workers EXCEPT ![w] = "idle"]
  /\ broker' = [broker EXCEPT !.unacked = @ \ {w}]
  /\ UNCHANGED <<created, jobVars>>

\* the message worker w holds stays unacknowledged for longer than the
\* broker waits: the broker puts it back on the queue while w still runs
redeliver(w) ==
  /\ w \in broker.unacked
  /\ broker' = [broker EXCEPT !.unacked = @ \ {w}, !.ready = @ + 1]
  /\ UNCHANGED <<created, workers, jobVars>>

\* worker w is lost in the middle of its task: its run ends and the
\* message it had not acknowledged goes back on the queue
worker_lost(w) ==
  /\ workers[w] # "idle"
  /\ workers' = [workers EXCEPT ![w] = "idle"]
  /\ broker' = [broker EXCEPT
                  !.unacked = @ \ {w},
                  !.ready = IF w \in broker.unacked THEN @ + 1 ELSE @]
  /\ UNCHANGED <<created, jobVars>>

\* a table whose project column is a plain ForeignKey: any number of rows
\* per project
ForeignKey(rows, project) == TRUE

\* OneToOneField(Project): the project column is unique, a row is
\* inserted only when the table has none for the project
OneToOneField(rows, project) ==
  \A i \in 1..Len(rows) : rows[i].project # project

SaveModes == {"create", "update_or_create"}

\* the table after a save by worker w's run: create inserts a row, or
\* fails with IntegrityError and leaves the table alone when the column's
\* constraint refuses it; update_or_create rewrites the project's row when
\* there is one
SaveRow(rows, project, w, mode) ==
  LET row == [project |-> project, by |-> w] IN
  IF mode = "update_or_create" /\ \E i \in 1..Len(rows) : rows[i].project = project
  THEN [i \in 1..Len(rows) |->
          IF rows[i].project = project THEN row ELSE rows[i]]
  ELSE IF OneToOneField(rows, project) THEN Append(rows, row)
  ELSE rows

queueRest ==
  <<status, note, job, mstate, state, clean_outline, wnext, winflight,
    trace, saveCalls, ntool, attempt, nattempt, db, call, pool, api>>

\* save_research, called by the research agent of worker w's run
save_research(w, mode) ==
  /\ workers[w] = "research"
  /\ tables.saves < MaxToolCalls
  /\ tables' = [tables EXCEPT
                  !.research = SaveRow(@, ProjectId, w, mode),
                  !.saves = @ + 1]
  /\ UNCHANGED <<created, broker, workers, queueRest>>

\* save_outline, called by the outline agent of worker w's run
save_outline(w, mode) ==
  /\ workers[w] = "outliner"
  /\ tables.saves < MaxToolCalls
  /\ tables' = [tables EXCEPT
                  !.outline = SaveRow(@, ProjectId, w, mode),
                  !.saves = @ + 1]
  /\ UNCHANGED <<created, broker, workers, queueRest>>

NextQueue ==
  \/ \E enqueued \in BOOLEAN : create(enqueued)
  \/ \E w \in Workers : deliver(w)
  \/ \E w \in Workers : advance(w)
  \/ \E w \in Workers : finish(w)
  \/ \E w \in Workers : redeliver(w)
  \/ \E w \in Workers : worker_lost(w)
  \/ \E w \in Workers, mode \in SaveModes : save_research(w, mode)
  \/ \E w \in Workers, mode \in SaveModes : save_outline(w, mode)

SpecQueue == Init /\ [][NextQueue]_vars

----------------------------------------------------------------------------
(* Properties *)

Invoked(stage) ==
  \E i \in 1..Len(trace) : trace[i].ev = "invoke" /\ trace[i].stage = stage

Raised(stage) ==
  \E i \in 1..Len(trace) : trace[i].ev = "raise" /\ trace[i].stage = stage

ReturnedBefore(stage, i) ==
  \E j \in 1..(i - 1) : trace[j].ev = "return" /\ trace[j].stage = stage

\* the writer method got as far as building its inputs
WriterRan == mstate["writer"] # "idle"

\* the writer method raised before it called kickoff_for_each
WriterRaisedEarly == mstate["writer"] = "raised" /\ ~Invoked("write")

\* C1: the stages are invoked in the order research, outline, write: the
\* outline crew is invoked only after the research crew returned, a write
\* only after the outline crew returned, and the research crew first.
C1_StageOrder ==
  \A i \in 1..Len(trace) :
    trace[i].ev = "invoke" =>
      /\ trace[i].stage = "research" => i = 1
      /\ trace[i].stage = "outliner" => ReturnedBefore("research", i)
      /\ trace[i].stage = "write" => ReturnedBefore("outliner", i)

\* a run that invoked two writes and returned
C1_Witness ==
  /\ job = "succeeded"
  /\ Invoked("research") /\ Invoked("outliner")
  /\ \E i \in 1..Len(trace) : trace[i] = Event("invoke", "write", 2)

\* C2: when the step of a stage failed, the persisted status is failed and
\* carries a note.
C2_FailureMarksFailed ==
  (Raised("research") \/ Raised("outliner") \/ Raised("write"))
    => (status = "failed" /\ note # "")

\* C3: after a stage failed no later stage is invoked: nothing follows a
\* raise in the run, no outline or write after a failed research and no
\* write after a failed outline.
C3_FailureStopsRun ==
  /\ \A i \in 1..Len(trace) : trace[i].ev = "raise" => i = Len(trace)
  /\ Raised("research") => ~Invoked("outliner") /\ ~Invoked("write")
  /\ Raised("outliner") => ~Invoked("write")

\* the outline crew failed after the research crew had returned
C3_Witness ==
  /\ Raised("outliner")
  /\ ReturnedBefore("research", Len(trace))
  /\ job = "failed"

Rank(s) ==
  CASE s = "draft" -> 0
    [] s = "researching" -> 1
    [] s = "outlined" -> 2
    [] s = "writing" -> 3
    [] s = "completed" -> 4
    [] s = "failed" -> 5

TerminalStatus == {"completed", "failed"}

\* C4: the status only moves forward along draft, researching, outlined,
\* writing, completed, with failed reachable from the non-terminal ones, and
\* never leaves completed or failed.
C4_StatusMovesForward ==
  [][ \/ status' = status
      \/ /\ status \notin TerminalStatus
         /\ Rank(status') > Rank(status) ]_vars

\* C5: a run in which every stage invocation succeeded ends with the status
\* completed.
C5_SuccessCompletes ==
  job = "succeeded" => status = "completed"

\* a tool call of this step signals completion: it moves the status to
\* completed or is a section save with mark_completed=true
SignalsCompletion ==
  /\ ntool' = ntool + 1
  /\ \/ status # "completed" /\ status' = "completed"
     \/ \E c \in DOMAIN saveCalls : c[2] /\ saveCalls'[c] > saveCalls[c]

\* C6: completion is signalled only once every other write of the run has
\* returned: during the writes no section save carries mark_completed=true,
\* and no agent sets the status to completed, while a later input is still
\* to be written.
C6_CompletedAfterAllWrites ==
  [][ (winflight /\ SignalsCompletion) => wnext = Len(clean_outline) ]_vars

\* C7: over the writes of a run exactly one section save carries
\* mark_completed=true, and it is made by the write of the last section.
C7_MarkCompletedOnce ==
  (job = "succeeded" /\ Len(clean_outline) >= 1) =>
    \A c \in DOMAIN saveCalls :
      c[2] => saveCalls[c] = (IF c[1] = Len(clean_outline) THEN 1 ELSE 0)

\* json.loads of every outline text
ParsedText == [t \in OutlineTexts |-> json_loads(t)]

\* the outline data the writer works on, when there is one
OutlineParses ==
  state.outline.t = "text" => ParsedText[state.outline].ok

OutlineData ==
  IF state.outline.t = "text" THEN ParsedText[state.outline].val
  ELSE state.outline

\* the values of the key "structure" in a record
StructureValues(d) ==
  {d.items[j][2] : j \in {k \in 1..Len(d.items) : d.items[k][1] = "structure"}}

\* the outline is, or parses to, a record whose "structure" is a list
HasStructureList ==
  /\ OutlineParses
  /\ OutlineData.t = "dict"
  /\ \E v \in StructureValues(OutlineData) : v.t = "list"

StructureList ==
  (CHOOSE v \in StructureValues(OutlineData) : v.t = "list").elems

\* the structure list each serialised OutlineResult was made from
SerialisedFrom ==
  [t \in {VText(Dumps(OutlineResult(l))) : l \in StructureLists} |->
     CHOOSE l \in StructureLists : VText(Dumps(OutlineResult(l))) = t]

\* the indices of the write invocations of the run, in the order made
RECURSIVE WriteIndices(_)
WriteIndices(tr) ==
  IF tr = << >> THEN << >>
  ELSE (IF Head(tr).ev = "invoke" /\ Head(tr).stage = "write"
        THEN <<Head(tr).idx>> ELSE << >>) \o WriteIndices(Tail(tr))

\* the writer passed one input per entry of l and the crew is invoked for
\* them one by one, each once
OneRequestPerEntry(l) ==
  /\ ~WriterRaisedEarly
  /\ Len(clean_outline) = Len(l)
  /\ \A i \in 1..Len(l) : clean_outline[i].section = l[i]
  /\ LET w == WriteIndices(trace) IN
       /\ Len(w) <= Len(l)
       /\ \A i \in 1..Len(w) : w[i] = i
       /\ job = "succeeded" => Len(w) = Len(l)

\* C8: for an outline that is, or parses to, a record whose structure list
\* has n entries, the writer passes n inputs, the i-th with the i-th entry
\* as its section, and the crew is invoked for them one by one, each once.
C8_OneRequestPerEntry ==
  WriterRan =>
    /\ HasStructureList => OneRequestPerEntry(StructureList)
    /\ state.outline \in DOMAIN SerialisedFrom
         => OneRequestPerEntry(SerialisedFrom[state.outline])
    /\ state.outline \in OutlineResults
         => OneRequestPerEntry(dict_get(state.outline, "structure", VNone).elems)

\* a finished run over a text outline of two different entries
C8_Witness ==
  /\ job = "succeeded"
  /\ state.outline =
       VText(Dumps(OutlineResult(<<SectionWithOneSubsection("B", 1),
                                   SectionWithSubsections("A", 2)>>)))
  /\ Len(clean_outline) = 2
  /\ WriteIndices(trace) = <<1, 2>>

\* texts that are not JSON: cut-off serialisations and the broken texts
UnparsableTexts ==
  {VText(p) : p \in UNION {Prefixes(Dumps(v)) : v \in TruncatedValues}}
    \cup {VText(p) : p \in BrokenTexts}

\* C9: when the outline is text that does not parse (the empty string
\* included) the writer does not raise and passes exactly one input, whose
\* section is None and whose outline is the raw text.
C9_UnparsableFallback ==
  (WriterRan /\ (state.outline \in UnparsableTexts \/ ~OutlineParses))
    => /\ ~WriterRaisedEarly
       /\ Len(clean_outline) = 1
       /\ clean_outline[1].section = VNone
       /\ clean_outline[1].outline = state.outline
       /\ clean_outline[1].outline.t = "text"

\* the writer ran on the empty string and its one write was invoked
C9_Witness ==
  /\ state.outline = VText(<< >>)
  /\ Len(clean_outline) = 1
  /\ WriteIndices(trace) = <<1>>

\* C10: whatever the outline stage returned, the writer hands at least one
\* input to the writer crew.
C10_AtLeastOneRequest ==
  WriterRan => (~WriterRaisedEarly /\ Len(clean_outline) >= 1)

\* the sections handed to the fan-out, in the order handed
HandedSections == [i \in 1..Len(clean_outline) |-> clean_outline[i].section]

\* the outline is, or parses to, a record of the OutlineResult shape
WellFormedOutline == OutlineParses /\ OutlineData \in OutlineResults

\* C11: for an outline that is, or parses to, a record of the OutlineResult
\* shape, the sections handed to the fan-out are the entries of its
\* structure list, unchanged and in the list's order (not sorted by the
\* order field), and every input carries the outline data unchanged.
C11_NormalizationIdentity ==
  (WriterRan /\ WellFormedOutline) =>
    /\ ~WriterRaisedEarly
    /\ HandedSections = dict_get(OutlineData, "structure", VNone).elems
    /\ \A i \in 1..Len(clean_outline) : clean_outline[i].outline = OutlineData

\* the writer ran on the text of an outline whose list is not sorted by
\* order, and handed the two entries on as they stood
C11_Witness ==
  /\ WriterRan
  /\ state.outline =
       VText(Dumps(OutlineResult(<<SectionWithSubsections("A", 2),
                                   SectionWithOneSubsection("B", 1)>>)))
  /\ HandedSections = <<SectionWithSubsections("A", 2),
                        SectionWithOneSubsection("B", 1)>>
  /\ OrderOf(HandedSections[1]) > OrderOf(HandedSections[2])

\* the sections of the write invocations of the run, in the order made
WrittenSections ==
  LET w == WriteIndices(trace) IN
    [k \in 1..Len(w) |-> clean_outline[w[k]].section]

\* the written sections follow each other by ascending `order` field
InOrderFieldSequence(secs) ==
  \A i, j \in 1..Len(secs) :
    OrderOf(secs[i]) < OrderOf(secs[j]) => i < j

\* C20 as stated: for any two sections a and b with a.order < b.order the
\* write invocation for a precedes the one for b, also when the structure
\* list is not sorted by order
C20_WritesInOrderField ==
  (WriterRan /\ WellFormedOutline) => InOrderFieldSequence(WrittenSections)

\* C20: the write invocations of a run are made in the sequence of the
\* outline's structure list: the k-th invocation is for the k-th entry of
\* the list, whatever the entries' order fields; they follow the order
\* field exactly when the list itself does.
C20_WritesInListOrder ==
  (WriterRan /\ WellFormedOutline) =>
    LET l == dict_get(OutlineData, "structure", VNone).elems
        ws == WrittenSections
    IN /\ Len(ws) <= Len(l)
       /\ \A k \in 1..Len(ws) : ws[k] = l[k]
       /\ (Len(ws) = Len(l) => (InOrderFieldSequence(ws) <=> InOrderFieldSequence(l)))

\* both writes of an outline object whose list runs against the order
\* field were invoked: the entry of order 2 first, the entry of order 1 next
C20_Witness ==
  /\ state.outline = OutlineResult(<<SectionWithSubsections("A", 2),
                                     SectionWithOneSubsection("B", 1)>>)
  /\ Len(WrittenSections) = 2
  /\ OrderOf(WrittenSections[1]) = 2
  /\ OrderOf(WrittenSections[2]) = 1

\* a call of function fn that has returned or raised
Called(fn) == call.fn = fn /\ call.out # VNone

\* the total_sources_found of a gate input that carries a number
TotalOf(result) == dict_get(result, "total_sources_found", VNone).n

HasTotal(result) ==
  /\ result.t = "dict"
  /\ dict_get(result, "total_sources_found", VNone).t = "num"

FetchFailed ==
  LET scn == call.arg IN
  CASE call.fn = "EnhancedPDFReaderTool" ->
         \/ ~scn.importOk \/ scn.download # "ok" \/ scn.status # "200"
         \/ (~scn.pdfType /\ ~scn.pdfSuffix) \/ scn.parse = "error"
    [] call.fn = "PDFMetadataReaderTool" ->
         \/ ~scn.importOk \/ scn.download # "ok" \/ scn.status # "200"
         \/ scn.parse = "error"
    [] call.fn = "BrightDataWebUnlockerTool" ->
         \/ (scn.primary = "ok" /\ scn.status # "200")
         \/ /\ (scn.primary # "ok" \/ scn.parse = "error")
            /\ \/ scn.fallback # "ok" \/ scn.fb_status # "200"
               \/ scn.fb_parse = "error"
    [] OTHER -> FALSE

\* the texts of the three tools that describe an error
FetchErrors ==
  PDFReaderErrors \cup {"Error reading PDF metadata"} \cup WebUnlockerErrors

\* C19: none of the three fetch tools raises to its caller: whatever fails
\* during a run (download, HTTP status, content type, parsing, and for the
\* web unlocker both the API request and the fallback scrape), the tool
\* returns a text, and that text describes the error.
C19_FetchNeverRaises ==
  (call.fn \in DOMAIN FetchTools /\ call.out # VNone) =>
    /\ ~call.out.raised
    /\ FetchFailed => call.out.val \in FetchErrors

\* the web unlocker returned its error text after the API request timed
\* out and the fallback page failed to parse
C19_Witness ==
  /\ Called("BrightDataWebUnlockerTool")
  /\ call.arg.primary = "Timeout"
  /\ call.arg.fallback = "ok" /\ call.arg.fb_status = "200"
  /\ call.arg.fb_parse = "error"
  /\ call.out = Returns("Error unlocking website (Fallback also failed)")

\* C13: no stored Research row has total_sources_found below 10, at any
\* point of the research stage, attempts that are later rejected included.
C13_NoBelowThresholdStored ==
  db.research # VNone => TotalOf(db.research) >= 10

\* the research output the flow state's research_summary is the text of
AcceptedResearch == json_loads(state.research_summary).val

\* C14: every research output accepted as the final output of the research
\* stage declares as many sources as it lists: total_sources_found equals
\* len(sources).
C14_AcceptedTotalMatchesSources ==
  state.research_summary # VNone =>
    TotalOf(AcceptedResearch)
      = Len(dict_get(AcceptedResearch, "sources", VNone).elems)

\* the stored Section rows that are top-level sections / subsections
TopLevelRows == SelectSeq(db.sections, LAMBDA r : r.sub = 0)
SubsectionRows == SelectSeq(db.sections, LAMBDA r : r.sub # 0)

\* the number of subsections of the first n entries handed to the writer
RECURSIVE SubsectionTotal(_)
SubsectionTotal(n) ==
  IF n = 0 THEN 0
  ELSE SubsectionCount(clean_outline[n].section) + SubsectionTotal(n - 1)

\* C15: after the write stage completed, the project has as many stored
\* top-level Section rows as the normalized outline has top-level entries,
\* and as many stored subsection rows as those entries have subsections.
C15_StoredSectionCounts ==
  mstate["writer"] = "done" =>
    /\ Len(TopLevelRows) = Len(clean_outline)
    /\ Len(SubsectionRows) = SubsectionTotal(Len(clean_outline))

\* C16: nothing stored is rolled back by a failure: the step in which a
\* stage or a section's write invocation fails, and every step after it,
\* leaves the stored Research, Outline and Section rows as they were.
C16_NoRollbackOnFailure ==
  [][job' = "failed" => db' = db]_vars

\* the write invocation of the second section failed, and the Research row
\* and the rows of the first section are stored
C16_Witness ==
  /\ job = "failed"
  /\ \E i \in 1..Len(trace) : trace[i] = Event("raise", "write", 2)
  /\ db.research # VNone
  /\ \E i \in 1..Len(db.sections) : db.sections[i].req = 1

\* a step that is a second or later call of the section-save tool with the
\* input of an earlier call
RepeatedSave ==
  \E c \in DOMAIN saveCalls :
    /\ c \in DOMAIN saveCalls'
    /\ saveCalls[c] >= 1
    /\ saveCalls'[c] = saveCalls[c] + 1

\* C17: calling save_section a second time for the same project and
\* section with the same input leaves the stored state as the first call
\* left it: the Section rows of that section do not grow.
C17_SaveSectionIdempotent ==
  [][RepeatedSave => db' = db]_vars

\* the workers that are running the job of the project
ActiveRuns == {w \in Workers : workers[w] # "idle"}

\* C18: at most one run of the pipeline is active for the project at any
\* time, across creation, enqueueing, execution by the workers and the
\* redelivery of the late-acknowledged message.
C18_AtMostOneActiveRun ==
  Cardinality(ActiveRuns) <= 1

\* the context of a write request: the request without its section
ContextOf(request) ==
  [topic |-> request.topic, citation_style |-> request.citation_style,
   research_summary |-> request.research_summary,
   outline |-> request.outline, project_id |-> request.project_id]

\* the context every request of the run is to carry: the inputs of the
\* run, the research stage's result and the outline (the parsed data, or
\* the raw text when it does not parse)
RunContext ==
  [topic |-> Topic, citation_style |-> CitationStyle,
   research_summary |-> state.research_summary,
   outline |-> IF OutlineParses THEN OutlineData ELSE state.outline,
   project_id |-> ProjectId]

\* C21: every write request of a run carries the run's topic,
\* citation_style, research_summary, project_id and the full outline;
\* these five values are the same in all requests of the run, which differ
\* in their section field only.
C21_SharedContext ==
  WriterRan =>
    /\ state.research_summary \in ResearchOutputs
    /\ \A i \in 1..Len(clean_outline) :
         ContextOf(clean_outline[i]) = RunContext
    /\ \A i, j \in 1..Len(clean_outline) :
         clean_outline[i] # clean_outline[j]
           => clean_outline[i].section # clean_outline[j].section

\* the two writes of a run were invoked with different sections and the
\* same context
C21_Witness ==
  /\ WriteIndices(trace) = <<1, 2>>
  /\ clean_outline[1].section # clean_outline[2].section
  /\ ContextOf(clean_outline[1]) = ContextOf(clean_outline[2])
  /\ clean_outline[1].research_summary \in ResearchOutputs

\* C22: checkpoints precede the next stage: whenever the outline crew has
\* been invoked the project's Research row is stored, and whenever a write
\* has been invoked the project's Outline row is stored.
C22_CheckpointsPrecede ==
  /\ Invoked("outliner") => db.research # VNone
  /\ Invoked("write") => db.outline

\* the research task has used up its attempts without an accepted output
ResearchExhausted ==
  /\ mstate["research"] = "running"
  /\ attempt = NoResult
  /\ nattempt = MaxAttempts

----------------------------------------------------------------------------
(* Progress of a run *)

\* the steps that are the flow's and the worker's own code: the worker
\* takes an enqueued job and every method whose trigger has completed is
\* run; whether a crew's kickoff ever comes back is not in their hands
FlowSteps ==
  \/ TaskStart
  \/ get_project_info
  \/ \E m \in {"research", "outliner"} : StageInvoke(m)
  \/ writer_start
  \/ write_invoke
  \/ writer_done

\* the run with a worker that keeps running and a flow whose own steps are
\* taken; a crew invocation may take for ever
SpecLive == Init /\ [][Next]_vars /\ WF_vars(FlowSteps)

TerminalStatuses == {"completed", "failed"}

\* C24: every triggered run eventually ends with the project in a
\* terminal status, completed or failed; a stage invocation that never
\* returns is timed out and leads to failed.
C24_RunReachesTerminalStatus ==
  (job = "running") ~> (status \in TerminalStatuses)

----------------------------------------------------------------------------
(* The jobs of several projects on the celery worker processes *)

Projects == {"A", "B", "C"}

nonPoolVars ==
  <<projectVars, job, flowVars, toolVars, researchVars, db, call, queueVars,
    tables, api>>

\* a worker process that runs no task
IdleRun == [project |-> "none", stage |-> "none"]

\* `procs` worker processes were started, each with the settings of the
\* source; how many is the deployment's choice
InitPool ==
  /\ InitRun
  /\ call = NoCall
  /\ InitQueue
  /\ tables = NoRows
  /\ api = NoData
  /\ pool \in {[procs |-> n, created |-> {}, queue |-> << >>,
                running |-> [w \in 1..n |-> IdleRun]] : n \in Workers}

\* ProjectCreateSerializer.create for project p: delay() puts the job of
\* p on the queue
create_project(p) ==
  /\ p \notin pool.created
  /\ pool' = [pool EXCEPT !.created = @ \cup {p}, !.queue = Append(@, p)]
  /\ UNCHANGED nonPoolVars

\* worker process w takes the next job and starts run_thesis_writing_flow:
\* with the solo pool, concurrency 1 and prefetch 1 it does so only while
\* it runs no task, and the task occupies it until asyncio.run returns
take_job(w) ==
  /\ w \in DOMAIN pool.running
  /\ pool.running[w] = IdleRun
  /\ pool.queue # << >>
  /\ pool' = [pool EXCEPT
                !.queue = Tail(@),
                !.running[w] = [project |-> Head(pool.queue),
                                stage |-> RunStages[1]]]
  /\ UNCHANGED nonPoolVars

\* the stage the run of worker process w waits in returns: the run goes on
\* to its next stage
stage_returns(w) ==
  /\ w \in DOMAIN pool.running
  /\ \E i \in 1..(Len(RunStages) - 1) :
       /\ pool.running[w].stage = RunStages[i]
       /\ pool' = [pool EXCEPT !.running[w].stage = RunStages[i + 1]]
  /\ UNCHANGED nonPoolVars

\* the task of worker process w returns or raises: the process is free
task_ends(w) ==
  /\ w \in DOMAIN pool.running
  /\ pool.running[w] # IdleRun
  /\ pool' = [pool EXCEPT !.running[w] = IdleRun]
  /\ UNCHANGED nonPoolVars

\* some worker process takes the next job
TakeNext == \E w \in Workers : take_job(w)

NextPool ==
  \/ \E p \in Projects : create_project(p)
  \/ TakeNext
  \/ \E w \in Workers : stage_returns(w)
  \/ \E w \in Workers : task_ends(w)

SpecPool == InitPool /\ [][NextPool]_vars

\* the run of project p waits in a stage on some worker process
Suspended(p) ==
  \E w \in DOMAIN pool.running :
    pool.running[w].project = p /\ pool.running[w].stage \in
      {RunStages[i] : i \in 1..Len(RunStages)}

\* C25: a run suspended in a stage for one project does not block the run
\* of another project: while the run of project a waits in a stage, the
\* enqueued job of project b can be started.
C25_SuspendedRunDoesNotBlock ==
  \A a, b \in Projects :
    (a # b /\ Suspended(a) /\ pool.queue # << >> /\ Head(pool.queue) = b)
      => ENABLED TakeNext

\* an entry of `sources` has the required fields of a source and a
\* source_type among the choices
SourceConforms(source) ==
  /\ source.t = "dict"
  /\ dict_get(source, "title", VNone).t = "str"
  /\ dict_get(source, "source_type", VNone).t = "str"
  /\ dict_get(source, "source_type", VNone).s \in SOURCE_TYPE_CHOICES

\* a research output has every required field with a value of the
\* declared type, its sources included
OutputConforms(value) ==
  /\ value.t = "dict"
  /\ \A i \in 1..Len(ResearchOutputFields) :
       dict_get(value, ResearchOutputFields[i][1], VNone).t
         = ResearchOutputFields[i][2]
  /\ \A i \in 1..Len(dict_get(value, "sources", VNone).elems) :
       SourceConforms(dict_get(value, "sources", VNone).elems[i])

\* C26: a stage output is rejected with a validation error whenever a
\* required field is absent or a value does not conform to its declared
\* primitive or enum type; a research output with a source whose
\* source_type is outside the choices, or that lacks a required source
\* field, is rejected.
C26_NonConformingOutputRejected ==
  (Called("ResearchOutput") /\ ~OutputConforms(call.arg)) =>
    (call.out.raised /\ call.out.val = "ValidationError")

\* the rows of a table that belong to the project
RowsOf(rows) == {i \in 1..Len(rows) : rows[i].project = ProjectId}

\* C27: after any sequence of research and outline saves, those of a
\* redelivered run included, the project owns at most one Research row
\* and at most one Outline row.
C27_AtMostOneResearchAndOutline ==
  /\ Cardinality(RowsOf(tables.research)) <= 1
  /\ Cardinality(RowsOf(tables.outline)) <= 1

\* the job was delivered twice and the research was saved twice: the
\* project has one Research row
C27_Witness ==
  /\ broker.deliveries >= 2
  /\ tables.saves >= 2
  /\ tables.outline = << >>
  /\ Cardinality(RowsOf(tables.research)) = 1

\* no part of a run has happened
NoRunStarted ==
  /\ trace = << >>
  /\ \A m \in DOMAIN mstate : mstate[m] = "idle"
  /\ state = ProjectInfo

\* C28: when enqueueing the job raises during project creation, the
\* creation still succeeds: the project is stored with status draft, and
\* no run is ever started for it (the job is never queued afterwards and
\* no flow method runs).
C28_EnqueueErrorSwallowed ==
  [][ /\ CreateProject(FALSE) =>
           (created' /\ status' = "draft" /\ job' = "none")
      /\ (created /\ job = "none") => (job' = "none" /\ NoRunStarted')
    ]_vars

\* the project was created with the enqueue failing, and its status has
\* since been edited: still no run
C28_Witness ==
  /\ created
  /\ job = "none"
  /\ status = "completed"
  /\ NoRunStarted

----------------------------------------------------------------------------
(* The API of projects and written sections, used by several users *)

Users == {"U", "V"}

\* every user creates one project: the ids the projects get
ProjectIds == 1..Cardinality(Users)

nonApiVars ==
  <<projectVars, job, flowVars, toolVars, researchVars, db, call, queueVars,
    pool, tables>>

\* Project.user of project p, "none" when there is no such project
Owner(p) == IF p \in 1..Len(api.projects) THEN api.projects[p] ELSE "none"

\* IsProjectOwner.has_permission on a nested route: the project of the
\* URL exists and is the user's
has_permission(u, p) == p \in 1..Len(api.projects) /\ api.projects[p] = u

\* SectionViewSet.get_queryset: the sections of the URL's project, when
\* the project is the user's
SectionQueryset(u, p) ==
  {i \in DOMAIN api.sections : api.sections[i].project = p /\ Owner(p) = u}

\* the values SectionSerializer takes for parent_section: the key of any
\* Section row, or null (0); the field is writable and has no validator
ParentChoices == DOMAIN api.sections \cup {0}

\* section.subsections.all()
Subsections(S, sec) == {c \in DOMAIN S : S[c].parent = sec}

RECURSIVE Below(_, _, _)
\* the rows reached from `set` in at most n steps down parent_section
Below(S, set, n) ==
  IF n = 0 THEN set
  ELSE Below(S, set \cup {c \in DOMAIN S : S[c].parent \in set}, n - 1)

\* the subsections of a section, theirs, and so on
Descendants(S, sec) == Below(S, Subsections(S, sec), MaxRows)

\* the users whose projects the rows `ids` belong to
OwnersOf(ids) == {Owner(api.sections[i].project) : i \in ids}

\* what a request did: who made it, whose rows it returned, created,
\* changed or deleted, and its status code
Respond(u, owners, code) == [user |-> u, owners |-> owners, code |-> code]

\* POST /projects/: the project is the requesting user's
ProjectViewSet_create(u) ==
  /\ \A i \in 1..Len(api.projects) : api.projects[i] # u
  /\ api' = [api EXCEPT !.projects = Append(@, u),
                        !.last = Respond(u, {u}, "201")]
  /\ UNCHANGED nonApiVars

\* POST /projects/p/sections/ by user u with parent_section = parent
SectionViewSet_create(u, p, parent) ==
  /\ api.next <= MaxRows
  /\ api' =
       IF ~has_permission(u, p)
       THEN [api EXCEPT !.last = Respond(u, {}, "403")]
       ELSE IF parent \notin ParentChoices
       THEN [api EXCEPT !.last = Respond(u, {}, "400")]
       ELSE [api EXCEPT
               !.sections =
                  [i \in DOMAIN @ \cup {api.next} |->
                     IF i = api.next
                     THEN [project |-> p, parent |-> parent]
                     ELSE @[i]],
               !.next = @ + 1,
               !.last = Respond(u, {Owner(p)}, "201")]
  /\ UNCHANGED nonApiVars

\* PUT /projects/p/sections/sec/ by user u with parent_section = parent
SectionViewSet_update(u, p, sec, parent) ==
  /\ api' =
       IF ~has_permission(u, p)
       THEN [api EXCEPT !.last = Respond(u, {}, "403")]
       ELSE IF sec \notin SectionQueryset(u, p)
       THEN [api EXCEPT !.last = Respond(u, {}, "404")]
       ELSE IF parent \notin ParentChoices
       THEN [api EXCEPT !.last = Respond(u, {}, "400")]
       ELSE [api EXCEPT !.sections[sec].parent = parent,
                        !.last = Respond(u, OwnersOf({sec}), "200")]
  /\ UNCHANGED nonApiVars

\* DELETE /projects/p/sections/sec/ by user u: parent_section is
\* on_delete=CASCADE, the rows below the section go with it
SectionViewSet_destroy(u, p, sec) ==
  /\ api' =
       IF ~has_permission(u, p)
       THEN [api EXCEPT !.last = Respond(u, {}, "403")]
       ELSE IF sec \notin SectionQueryset(u, p)
       THEN [api EXCEPT !.last = Respond(u, {}, "404")]
       ELSE LET gone == {sec} \cup Descendants(api.sections, sec) IN
            [api EXCEPT
               !.sections = [i \in DOMAIN @ \ gone |-> @[i]],
               !.last = Respond(u, OwnersOf(gone), "204")]
  /\ UNCHANGED nonApiVars

\* GET /projects/p/sections/ by user u: every section of the queryset is
\* serialized with total_word_count and its subsections, nested; both
\* recurse down parent_section and do not end on a cycle
SectionViewSet_list(u, p) ==
  /\ api' =
       IF ~has_permission(u, p)
       THEN [api EXCEPT !.last = Respond(u, {}, "403")]
       ELSE LET listed == SectionQueryset(u, p)
                shown == listed \cup
                  UNION {Descendants(api.sections, i) : i \in listed}
            IN IF \E i \in shown : i \in Descendants(api.sections, i)
               THEN [api EXCEPT !.last = Respond(u, {}, "500")]
               ELSE [api EXCEPT !.last = Respond(u, OwnersOf(shown), "200")]
  /\ UNCHANGED nonApiVars

NextApi ==
  \/ \E u \in Users : ProjectViewSet_create(u)
  \/ \E u \in Users, p \in ProjectIds, parent \in 0..MaxRows :
       SectionViewSet_create(u, p, parent)
  \/ \E u \in Users, p \in ProjectIds, sec \in 1..MaxRows,
        parent \in 0..MaxRows :
       SectionViewSet_update(u, p, sec, parent)
  \/ \E u \in Users, p \in ProjectIds, sec \in 1..MaxRows :
       SectionViewSet_destroy(u, p, sec)
  \/ \E u \in Users, p \in ProjectIds : SectionViewSet_list(u, p)

SpecApi == Init /\ [][NextApi]_vars

\* C29: project data is isolated per owner: a request authenticated as
\* one user never returns, creates under, modifies or deletes a project
\* of another user or any of that project's sections.
C29_OwnerIsolation ==
  api.last.owners \subseteq {api.last.user}

\* C30: the parent_section relation over the Section rows stays acyclic
\* after any sequence of section creates and updates (no section is its
\* own ancestor), so that total_word_count terminates.
C30_ParentSectionAcyclic ==
  /\ \A sec \in DOMAIN api.sections :
       sec \notin Descendants(api.sections, sec)
  /\ api.last.code # "500"

====
